---- MODULE Spec2Model ----
(***************************************************************************)
(* Model of the chat widget controller of                                  *)
(* mm-ai-agent/frontend/static/next_version/js/script.js.                  *)
(*                                                                         *)
(* One action is one run of the browser's event loop: an event listener,   *)
(* or the continuation of an async function after an awaited promise       *)
(* settles, run to the next await.  Text is a sequence of one-character    *)
(* strings, so that String.prototype.trim is computed and not assumed.     *)
(***************************************************************************)
EXTENDS Integers, Sequences, FiniteSets, TLC

VARIABLES
    chatInput,            \* chatInput.value
    sendDisabled,         \* sendButton.disabled
    isTyping,             \* let isTyping
    typingIndicator,      \* typingIndicator.classList has "active"
    conversationHistory,  \* let conversationHistory
    chatWindow,           \* children appended to chatWindow
    productContainer,     \* [active, html] of productContainer
    orderContainer,       \* [active, html] of orderContainer
    statusIndicator,      \* classes online/offline of .connection-status
    probe,                \* the HEAD fetch of checkAPIConnection
    inflight,             \* pending sendUserMessage calls (POST)
    posts,                \* number of POST requests issued so far
    rejected,             \* number of handleUserMessage promises that rejected
    clicks                \* number of renderer buttons activated so far

vars == <<chatInput, sendDisabled, isTyping, typingIndicator,
          conversationHistory, chatWindow, productContainer, orderContainer,
          statusIndicator, probe, inflight, posts, rejected, clicks>>

\* Bounds of the exploration.
MaxPosts == 2
MaxClicks == 1

-----------------------------------------------------------------------------
\* Texts

\* Values the user can type into the input field.
InputTexts == { <<" ">>, <<" ", "a", " ">> }

\* data-action values of the quick action buttons.
QuickActions == { <<"a">> }

FallbackNotice == <<"E">>
OfflineNotice == <<"O">>
ResponseMessage == <<"m">>

RECURSIVE trimStart(_)
trimStart(s) ==
    IF s = <<>> THEN s
    ELSE IF Head(s) = " " THEN trimStart(Tail(s)) ELSE s

RECURSIVE trimEnd(_)
trimEnd(s) ==
    IF s = <<>> THEN s
    ELSE IF s[Len(s)] = " " THEN trimEnd(SubSeq(s, 1, Len(s) - 1)) ELSE s

trim(s) == trimEnd(trimStart(s))

-----------------------------------------------------------------------------
\* Response payloads.  A payload is one record shape for every kind of data;
\* a field the JSON body does not carry is marked absent by its has* flag.

NoData ==
    [present |-> FALSE, results |-> <<>>, hasItems |-> FALSE, items |-> <<>>,
     hasTotal |-> FALSE, total |-> 0, order_id |-> ""]

KeywordResult(kw, err, cnt, hasProducts, products) ==
    [keyword |-> kw, hasError |-> err, total_count |-> cnt,
     hasProducts |-> hasProducts, products |-> products]

ProductData(results) ==
    [present |-> TRUE, results |-> results, hasItems |-> FALSE, items |-> <<>>,
     hasTotal |-> FALSE, total |-> 0, order_id |-> ""]

OrderData(items, hasTotal, total) ==
    [present |-> TRUE, results |-> <<>>, hasItems |-> TRUE, items |-> items,
     hasTotal |-> hasTotal, total |-> total, order_id |-> "7"]

\* One keyword with a product, one with no match, one whose lookup failed.
ProductDataGood ==
    ProductData(<< KeywordResult("k1", FALSE, 1, TRUE, <<"A1">>),
                   KeywordResult("k2", FALSE, 0, FALSE, <<>>),
                   KeywordResult("k3", TRUE, 0, FALSE, <<>>) >>)

\* total_count > 0 and no products list.
ProductDataNoList ==
    ProductData(<< KeywordResult("k1", FALSE, 1, FALSE, <<>>) >>)

OrderDataNoTotal ==
    OrderData(<< [price |-> 500, quantity |-> 3], [price |-> 20, quantity |-> 1] >>,
              FALSE, 0)

Response(type, data) == [message |-> ResponseMessage, type |-> type, data |-> data]

\* Decoded bodies of the POST.
Responses ==
    { Response("none", NoData),
      Response("product", ProductDataGood),
      Response("product", ProductDataNoList),
      Response("order", OrderDataNoTotal) }

\* A body that decodes to null: valid JSON, not a response object.
NullBody == [message |-> <<>>, type |-> "null", data |-> NoData]

DecodedBodies == Responses \cup { NullBody }

-----------------------------------------------------------------------------
\* Helper functions

Digit(d) == << "0", "1", "2", "3", "4", "5", "6", "7", "8", "9" >>[d + 1]

RECURSIVE digits(_)
digits(n) == IF n < 10 THEN << Digit(n) >> ELSE digits(n \div 10) \o << Digit(n % 10) >>

RECURSIVE group(_)
group(s) ==
    IF Len(s) <= 3 THEN s
    ELSE group(SubSeq(s, 1, Len(s) - 3)) \o << "." >> \o SubSeq(s, Len(s) - 2, Len(s))

\* Intl.NumberFormat('vi-VN').format(price), for a non-negative integer.
formatPrice(price) == group(digits(price))

updateSendButtonState(value) == trim(value) = <<>>

addUserMessageToChat(log, text) == Append(log, [cls |-> "user-message", text |-> text])

\* addBotMessageToChat that inserts the message before the first child.
addBotMessageToChatOnTop(log, text) == << [cls |-> "bot-message", text |-> text] >> \o log

addBotMessageToChat(log, text) == Append(log, [cls |-> "bot-message", text |-> text])

\* hideAllResponseContainers that empties the containers and leaves their
\* "active" class.
hideAllKeepsActive(containers) ==
    [product |-> [active |-> containers.product.active, html |-> <<>>],
     order |-> [active |-> containers.order.active, html |-> <<>>]]

\* The two containers, each [active, html], after hideAllResponseContainers.
hideAllResponseContainers(containers) ==
    [product |-> [active |-> FALSE, html |-> <<>>],
     order |-> [active |-> FALSE, html |-> <<>>]]

-----------------------------------------------------------------------------
\* Renderers.  A renderer returns the container it leaves behind and whether
\* it threw; a throw leaves the container as it was at that point.

RECURSIVE renderKeywords(_)
renderKeywords(results) ==
    IF results = <<>> THEN [html |-> <<>>, threw |-> FALSE]
    ELSE LET result == Head(results)
             rest == renderKeywords(Tail(results))
         IN  IF result.hasError
             THEN [html |-> << [kind |-> "error-message", keyword |-> result.keyword,
                                cards |-> <<>>] >> \o rest.html,
                   threw |-> rest.threw]
             ELSE IF result.total_count = 0
             THEN [html |-> << [kind |-> "no-results", keyword |-> result.keyword,
                                cards |-> <<>>] >> \o rest.html,
                   threw |-> rest.threw]
             ELSE IF ~result.hasProducts
             THEN [html |-> <<>>, threw |-> TRUE]
             ELSE [html |-> << [kind |-> "product-section", keyword |-> result.keyword,
                                cards |-> result.products] >> \o rest.html,
                   threw |-> rest.threw]

renderProductResponse(container, data) ==
    LET r == renderKeywords(data.results)
    IN  IF r.threw
        THEN [container |-> [active |-> TRUE, html |-> container.html], threw |-> TRUE]
        ELSE [container |-> [active |-> TRUE,
                             html |-> << [kind |-> "header", keyword |-> "", cards |-> <<>>] >>
                                      \o r.html],
              threw |-> FALSE]

RECURSIVE itemTotals(_)
itemTotals(items) ==
    IF items = <<>> THEN <<>>
    ELSE << Head(items).price * Head(items).quantity >> \o itemTotals(Tail(items))

RECURSIVE sum(_)
sum(s) == IF s = <<>> THEN 0 ELSE Head(s) + sum(Tail(s))

\* renderOrderResponse that adds up the unit prices and forgets the quantity.
renderOrderResponseUnitPrices(container, data) ==
    LET totals == IF data.hasItems /\ Len(data.items) > 0
                  THEN [i \in 1..Len(data.items) |-> data.items[i].price] ELSE <<>>
        total == sum(totals)
        shown == IF data.hasTotal /\ data.total # 0 THEN data.total ELSE total
    IN  [container |->
            [active |-> TRUE,
             html |-> << [kind |-> "order-info", order_id |-> data.order_id,
                          lines |-> [i \in 1..Len(totals) |-> formatPrice(totals[i])],
                          total |-> formatPrice(shown)] >>],
         threw |-> FALSE]

renderOrderResponse(container, data) ==
    LET totals == IF data.hasItems /\ Len(data.items) > 0
                  THEN itemTotals(data.items) ELSE <<>>
        total == sum(totals)
        shown == IF data.hasTotal /\ data.total # 0 THEN data.total ELSE total
    IN  [container |->
            [active |-> TRUE,
             html |-> << [kind |-> "order-info", order_id |-> data.order_id,
                          lines |-> [i \in 1..Len(totals) |-> formatPrice(totals[i])],
                          total |-> formatPrice(shown)] >>],
         threw |-> FALSE]

\* processResponse that does not call hideAllResponseContainers.
processResponseNoHide(log, containers, response) ==
    LET hidden == containers
        log1 == addBotMessageToChat(log, response.message)
    IN  IF response = NullBody
        THEN [log |-> log, product |-> hidden.product, order |-> hidden.order,
              threw |-> TRUE]
        ELSE IF response.type = "product" /\ response.data.present
        THEN LET r == renderProductResponse(hidden.product, response.data)
             IN  [log |-> log1, product |-> r.container, order |-> hidden.order,
                  threw |-> r.threw]
        ELSE IF response.type = "order" /\ response.data.present
        THEN LET r == renderOrderResponse(hidden.order, response.data)
             IN  [log |-> log1, product |-> hidden.product, order |-> r.container,
                  threw |-> r.threw]
        ELSE [log |-> log1, product |-> hidden.product, order |-> hidden.order,
              threw |-> FALSE]

\* processResponse, from the log and the containers ([product, order]) it
\* finds: the log and the containers it leaves, and whether it threw.
processResponse(log, containers, response) ==
    LET hidden == hideAllResponseContainers(containers)
        log1 == addBotMessageToChat(log, response.message)
    IN  IF response = NullBody
        THEN [log |-> log, product |-> hidden.product, order |-> hidden.order,
              threw |-> TRUE]
        ELSE IF response.type = "product" /\ response.data.present
        THEN LET r == renderProductResponse(hidden.product, response.data)
             IN  [log |-> log1, product |-> r.container, order |-> hidden.order,
                  threw |-> r.threw]
        ELSE IF response.type = "order" /\ response.data.present
        THEN LET r == renderOrderResponse(hidden.order, response.data)
             IN  [log |-> log1, product |-> hidden.product, order |-> r.container,
                  threw |-> r.threw]
        ELSE [log |-> log1, product |-> hidden.product, order |-> hidden.order,
              threw |-> FALSE]

-----------------------------------------------------------------------------
\* Initial state: the page has loaded, the listeners are bound, the probe's
\* HEAD request is pending.

Init ==
    /\ chatInput = <<>>
    /\ sendDisabled = updateSendButtonState(<<>>)
    /\ isTyping = FALSE
    /\ typingIndicator = FALSE
    /\ conversationHistory = <<>>
    /\ chatWindow = <<>>
    /\ productContainer = [active |-> FALSE, html |-> <<>>]
    /\ orderContainer = [active |-> FALSE, html |-> <<>>]
    /\ statusIndicator = {}
    /\ probe = "pending"
    /\ inflight = {}
    /\ posts = 0
    /\ rejected = 0
    /\ clicks = 0

-----------------------------------------------------------------------------
\* Connectivity probe

\* setOfflineStatus that adds the notice twice.
setOfflineStatusTwice ==
    /\ statusIndicator' = (statusIndicator \ {"online"}) \cup {"offline"}
    /\ chatWindow' = addBotMessageToChat(addBotMessageToChat(chatWindow, OfflineNotice),
                                        OfflineNotice)

setOfflineStatus ==
    /\ statusIndicator' = (statusIndicator \ {"online"}) \cup {"offline"}
    /\ chatWindow' = addBotMessageToChat(chatWindow, OfflineNotice)

\* The continuation of checkAPIConnection once the HEAD request settles:
\* outcome is "ok", "status" (non-success status) or "network" (rejection).
checkAPIConnection(outcome) ==
    /\ probe = "pending"
    /\ probe' = "done"
    /\ IF outcome = "ok"
       THEN /\ statusIndicator' = (statusIndicator \ {"offline"}) \cup {"online"}
            /\ UNCHANGED chatWindow
       ELSE setOfflineStatus
    /\ UNCHANGED <<chatInput, sendDisabled, isTyping, typingIndicator,
                   conversationHistory, productContainer, orderContainer,
                   inflight, posts, rejected, clicks>>

ProbeSettles == \E outcome \in {"ok", "status", "network"} : checkAPIConnection(outcome)

-----------------------------------------------------------------------------
\* Submission

setTypingState(typing) ==
    /\ isTyping' = typing
    /\ typingIndicator' = typing

\* sendUserMessage up to its first await: the POST is issued.
sendUserMessage(userMessage) ==
    /\ inflight' = inflight \cup { [id |-> posts + 1, message |-> userMessage,
                                    stage |-> "fetch"] }
    /\ posts' = posts + 1

\* handleUserMessage that forgets to trim the text it records and sends.
handleUserMessageUntrimmed(value) ==
    IF value = <<>> \/ isTyping
    THEN /\ chatInput' = value
         /\ UNCHANGED <<sendDisabled, isTyping, typingIndicator,
                        conversationHistory, chatWindow, inflight, posts>>
    ELSE /\ chatInput' = <<>>
         /\ sendDisabled' = updateSendButtonState(<<>>)
         /\ chatWindow' = addUserMessageToChat(chatWindow, value)
         /\ conversationHistory' =
                Append(conversationHistory, [role |-> "user", message |-> value])
         /\ setTypingState(TRUE)
         /\ sendUserMessage(value)

\* handleUserMessage whose guard forgets isTyping.
handleUserMessageUnguarded(value) ==
    LET userMessage == trim(value)
    IN  IF userMessage = <<>>
        THEN /\ chatInput' = value
             /\ UNCHANGED <<sendDisabled, isTyping, typingIndicator,
                            conversationHistory, chatWindow, inflight, posts>>
        ELSE /\ chatInput' = <<>>
             /\ sendDisabled' = updateSendButtonState(<<>>)
             /\ chatWindow' = addUserMessageToChat(chatWindow, userMessage)
             /\ conversationHistory' =
                    Append(conversationHistory, [role |-> "user", message |-> userMessage])
             /\ setTypingState(TRUE)
             /\ sendUserMessage(userMessage)

\* handleUserMessage that also returns early when the status badge is offline.
handleUserMessageOfflineGated(value) ==
    LET userMessage == trim(value)
    IN  IF userMessage = <<>> \/ isTyping \/ "offline" \in statusIndicator
        THEN /\ chatInput' = value
             /\ UNCHANGED <<sendDisabled, isTyping, typingIndicator,
                            conversationHistory, chatWindow, inflight, posts>>
        ELSE /\ chatInput' = <<>>
             /\ sendDisabled' = updateSendButtonState(<<>>)
             /\ chatWindow' = addUserMessageToChat(chatWindow, userMessage)
             /\ conversationHistory' =
                    Append(conversationHistory, [role |-> "user", message |-> userMessage])
             /\ setTypingState(TRUE)
             /\ sendUserMessage(userMessage)

\* handleUserMessage up to its first await; value is chatInput.value on entry.
handleUserMessage(value) ==
    LET userMessage == trim(value)
    IN  IF userMessage = <<>> \/ isTyping
        THEN /\ chatInput' = value
             /\ UNCHANGED <<sendDisabled, isTyping, typingIndicator,
                            conversationHistory, chatWindow, inflight, posts>>
        ELSE /\ chatInput' = <<>>
             /\ sendDisabled' = updateSendButtonState(<<>>)
             /\ chatWindow' = addUserMessageToChat(chatWindow, userMessage)
             /\ conversationHistory' =
                    Append(conversationHistory, [role |-> "user", message |-> userMessage])
             /\ setTypingState(TRUE)
             /\ sendUserMessage(userMessage)

\* The guard of handleUserMessage lets the submission through.
Accepts(value) == trim(value) # <<>> /\ ~isTyping

Submit(value) ==
    /\ Accepts(value) => posts < MaxPosts
    /\ handleUserMessage(value)
    /\ UNCHANGED <<productContainer, orderContainer, statusIndicator, probe,
                   rejected, clicks>>

\* click on the send button; a disabled button fires no click
SendButtonClick == ~sendDisabled /\ Submit(chatInput)

\* keydown of Enter without Shift in the input field
EnterKey == Submit(chatInput)

\* click on a quick action button
QuickActionClick == \E action \in QuickActions : Submit(action)

\* input event of the input field
InputEvent ==
    \E value \in InputTexts :
        /\ chatInput' = value
        /\ sendDisabled' = updateSendButtonState(value)
        /\ UNCHANGED <<isTyping, typingIndicator, conversationHistory, chatWindow,
                       productContainer, orderContainer, statusIndicator, probe,
                       inflight, posts, rejected, clicks>>

\* A clear button that also gives up on the pending reply.
ClearInputClickCancels ==
    /\ chatInput' = <<>>
    /\ sendDisabled' = updateSendButtonState(<<>>)
    /\ setTypingState(FALSE)
    /\ UNCHANGED <<conversationHistory, chatWindow,
                   productContainer, orderContainer, statusIndicator, probe,
                   inflight, posts, rejected, clicks>>

\* click on the clear button
ClearInputClick ==
    /\ chatInput' = <<>>
    /\ sendDisabled' = updateSendButtonState(<<>>)
    /\ UNCHANGED <<isTyping, typingIndicator, conversationHistory, chatWindow,
                   productContainer, orderContainer, statusIndicator, probe,
                   inflight, posts, rejected, clicks>>

-----------------------------------------------------------------------------
\* Completion of a pending call: the rest of handleUserMessage

\* A catch block that leaves the typing state as it is.
onErrorKeepsTyping(log) ==
    /\ UNCHANGED <<isTyping, typingIndicator>>
    /\ chatWindow' = addBotMessageToChat(log, FallbackNotice)
    /\ UNCHANGED rejected

\* A catch block that shows nothing.
onErrorSilent(log) ==
    /\ setTypingState(FALSE)
    /\ chatWindow' = log
    /\ UNCHANGED rejected

\* catch (error) { ... } of handleUserMessage, entered with the log as the
\* try block left it; the promise of handleUserMessage then fulfils.
onError(log) ==
    /\ setTypingState(FALSE)
    /\ chatWindow' = addBotMessageToChat(log, FallbackNotice)
    /\ UNCHANGED rejected

\* Lines of handleUserMessage: the try block, the await of sendUserMessage and
\* the call of processResponse.
TryFirst == 116
TryLast == 133
AwaitLine == 118
DispatchLine == 124

\* An exception raised at a line of handleUserMessage: inside the try block it
\* is caught, elsewhere it rejects the promise handleUserMessage returned and
\* the rest of the function is skipped.
raise(line, log) ==
    IF TryFirst <= line /\ line <= TryLast
    THEN onError(log)
    ELSE /\ rejected' = rejected + 1
         /\ chatWindow' = log
         /\ UNCHANGED <<isTyping, typingIndicator>>

\* A failure path that sends the message again before giving up.
transportFailsRetries(c) ==
    IF posts < MaxPosts
    THEN /\ inflight' = (inflight \ {c})
                        \cup { [id |-> posts + 1, message |-> c.message, stage |-> "fetch"] }
         /\ posts' = posts + 1
         /\ UNCHANGED <<chatInput, sendDisabled, isTyping, typingIndicator,
                        conversationHistory, chatWindow, productContainer,
                        orderContainer, statusIndicator, probe, rejected, clicks>>
    ELSE /\ inflight' = inflight \ {c}
         /\ raise(AwaitLine, chatWindow)
         /\ UNCHANGED <<chatInput, sendDisabled, conversationHistory, productContainer,
                        orderContainer, statusIndicator, probe, posts, clicks>>

\* sendUserMessage throws or rejects while handleUserMessage awaits it.
transportFails(c) ==
    /\ inflight' = inflight \ {c}
    /\ raise(AwaitLine, chatWindow)
    /\ UNCHANGED <<chatInput, sendDisabled, conversationHistory, productContainer,
                   orderContainer, statusIndicator, probe, posts, clicks>>

\* fetch rejects: network-level failure
FetchRejects ==
    \E c \in inflight : c.stage = "fetch" /\ transportFails(c)

\* sendUserMessage that does not look at response.ok: a non-success status
\* goes on to response.json().
FetchResolvesUnchecked ==
    \E c \in inflight :
        /\ c.stage = "fetch"
        /\ inflight' = (inflight \ {c}) \cup { [c EXCEPT !.stage = "json"] }
        /\ UNCHANGED <<chatInput, sendDisabled, isTyping, typingIndicator,
                       conversationHistory, chatWindow, productContainer,
                       orderContainer, statusIndicator, probe, posts, rejected,
                       clicks>>

\* fetch resolves with a non-success status: sendUserMessage throws
FetchResolvesNotOk ==
    \E c \in inflight : c.stage = "fetch" /\ transportFails(c)

\* fetch resolves with a success status: sendUserMessage awaits response.json()
FetchResolvesOk ==
    \E c \in inflight :
        /\ c.stage = "fetch"
        /\ inflight' = (inflight \ {c}) \cup { [c EXCEPT !.stage = "json"] }
        /\ UNCHANGED <<chatInput, sendDisabled, isTyping, typingIndicator,
                       conversationHistory, chatWindow, productContainer,
                       orderContainer, statusIndicator, probe, posts, rejected,
                       clicks>>

\* response.json() rejects: the body is not JSON
JsonRejects ==
    \E c \in inflight : c.stage = "json" /\ transportFails(c)

\* The try block of handleUserMessage after sendUserMessage has returned
\* botResponse, and the catch block when processResponse throws.
onResponse(c, botResponse) ==
    LET p == processResponse(chatWindow,
                             [product |-> productContainer, order |-> orderContainer],
                             botResponse)
    IN  /\ inflight' = inflight \ {c}
        /\ productContainer' = p.product
        /\ orderContainer' = p.order
        /\ IF p.threw
           THEN /\ raise(DispatchLine, p.log)
                /\ UNCHANGED conversationHistory
           ELSE /\ setTypingState(FALSE)
                /\ chatWindow' = p.log
                /\ conversationHistory' =
                       Append(conversationHistory,
                              [role |-> "bot", message |-> botResponse.message,
                               type |-> botResponse.type, data |-> botResponse.data])
                /\ UNCHANGED rejected
        /\ UNCHANGED <<chatInput, sendDisabled, statusIndicator, probe, posts, clicks>>

\* response.json() resolves with the decoded body
JsonResolves ==
    \E c \in inflight : \E body \in DecodedBodies :
        c.stage = "json" /\ onResponse(c, body)

-----------------------------------------------------------------------------
\* Renderer buttons

\* data-sku of the add-to-cart buttons in productContainer
cartButtons ==
    { productContainer.html[i].cards[j] :
        <<i, j>> \in { <<i, j>> \in (1..Len(productContainer.html)) \X (1..1) :
                         j <= Len(productContainer.html[i].cards) } }

\* handleAddToCart that reports the item twice.
handleAddToCartTwice(sku) ==
    chatWindow' = addBotMessageToChat(addBotMessageToChat(chatWindow, << "cart", sku >>),
                                      << "cart", sku >>)

handleAddToCart(sku) ==
    chatWindow' = addBotMessageToChat(chatWindow, << "cart", sku >>)

AddToCartClick ==
    \E sku \in cartButtons :
        /\ clicks < MaxClicks
        /\ clicks' = clicks + 1
        /\ handleAddToCart(sku)
        /\ UNCHANGED <<chatInput, sendDisabled, isTyping, typingIndicator,
                       conversationHistory, productContainer, orderContainer,
                       statusIndicator, probe, inflight, posts, rejected>>

handleOrderAction(action, orderId) ==
    IF action = "track"
    THEN chatWindow' = addBotMessageToChat(chatWindow, << "track", orderId >>)
    ELSE IF action = "cancel"
    THEN chatWindow' = addBotMessageToChat(chatWindow, << "cancel", orderId >>)
    ELSE UNCHANGED chatWindow

OrderActionClick ==
    \E action \in {"track", "cancel"} :
        /\ orderContainer.html # <<>>
        /\ clicks < MaxClicks
        /\ clicks' = clicks + 1
        /\ handleOrderAction(action, orderContainer.html[1].order_id)
        /\ UNCHANGED <<chatInput, sendDisabled, isTyping, typingIndicator,
                       conversationHistory, productContainer, orderContainer,
                       statusIndicator, probe, inflight, posts, rejected>>

-----------------------------------------------------------------------------
\* Specifications

\* A pending call settles.
Settles ==
    FetchRejects \/ FetchResolvesNotOk \/ FetchResolvesOk \/ JsonRejects \/ JsonResolves

Next ==
    \/ ProbeSettles
    \/ SendButtonClick
    \/ EnterKey
    \/ QuickActionClick
    \/ InputEvent
    \/ ClearInputClick
    \/ FetchRejects
    \/ FetchResolvesNotOk
    \/ FetchResolvesOk
    \/ JsonRejects
    \/ JsonResolves
    \/ AddToCartClick
    \/ OrderActionClick

Spec == Init /\ [][Next]_vars

\* Every issued call eventually settles.
LiveSpec == Spec /\ WF_vars(Settles)

-----------------------------------------------------------------------------
\* The success continuation of handleUserMessage, statement by statement,
\* over every body shape the schema of the POST response allows.

MaxKeywords == 2
MaxProducts == 2
MaxItems == 2

KeywordNames == << "k1", "k2", "k3", "k4" >>
SkuNames == << "A1", "A2", "A3", "A4" >>

\* result objects of one keyword: error present or not, total_count zero or
\* not, products absent or a list of up to MaxProducts records
KeywordShapes ==
    { s \in [hasError : BOOLEAN, total_count : {0, 2}, hasProducts : BOOLEAN,
             n : 0..MaxProducts] : ~s.hasProducts => s.n = 0 }

ProductPayloads ==
    UNION { { ProductData([i \in 1..len |->
                  KeywordResult(KeywordNames[i], shapes[i].hasError,
                                shapes[i].total_count, shapes[i].hasProducts,
                                SubSeq(SkuNames, 1, shapes[i].n))]) :
              shapes \in [1..len -> KeywordShapes] } : len \in 0..MaxKeywords }

OrderItems ==
    { [price |-> 500, quantity |-> 3], [price |-> 20, quantity |-> 1],
      [price |-> 0, quantity |-> 2] }

ItemLists == UNION { [1..len -> OrderItems] : len \in 0..MaxItems }

\* an order whose body carries no items field
OrderDataNoItems(hasTotal, total) ==
    [OrderData(<<>>, hasTotal, total) EXCEPT !.hasItems = FALSE]

OrderPayloads ==
    LET totals == { <<FALSE, 0>>, <<TRUE, 0>>, <<TRUE, 999>> }
    IN  { OrderData(items, t[1], t[2]) : items \in ItemLists, t \in totals }
        \cup { OrderDataNoItems(t[1], t[2]) : t \in totals }

\* type: a kind the dispatcher knows, another string ("text"), or no type
\* field ("undefined")
ResponseTypes == { "none", "product", "order", "text", "undefined" }

ReplyBodies ==
    { Response("product", d) : d \in ProductPayloads }
    \cup { Response("order", d) : d \in OrderPayloads }
    \cup { Response(t, d) : t \in ResponseTypes,
                            d \in { NoData, ProductDataGood, OrderDataNoTotal } }
    \cup { NullBody }

\* The exchange before the one followed.
PriorResponses ==
    { Response("none", NoData), Response("product", ProductDataGood),
      Response("order", OrderDataNoTotal) }

\* The page after one exchange answered by prior and a second submission
\* whose fetch has resolved with a success status.
ReplyInit ==
    \E prior \in PriorResponses :
        LET text == CHOOSE q \in QuickActions : TRUE
            user == [role |-> "user", message |-> text]
            p == processResponse(addUserMessageToChat(<<>>, text),
                                 [product |-> [active |-> FALSE, html |-> <<>>],
                                  order |-> [active |-> FALSE, html |-> <<>>]],
                                 prior)
        IN  /\ chatInput = <<>>
            /\ sendDisabled = updateSendButtonState(<<>>)
            /\ isTyping = TRUE
            /\ typingIndicator = TRUE
            /\ conversationHistory =
                   << user,
                      [role |-> "bot", message |-> prior.message,
                       type |-> prior.type, data |-> prior.data],
                      user >>
            /\ chatWindow = addUserMessageToChat(p.log, text)
            /\ productContainer = p.product
            /\ orderContainer = p.order
            /\ statusIndicator = {"online"}
            /\ probe = "done"
            /\ inflight = { [id |-> 2, message |-> text, stage |-> "json"] }
            /\ posts = 2
            /\ rejected = 0
            /\ clicks = 0

at(c, stage) == [id |-> c.id, message |-> c.message, stage |-> stage, body |-> c.body]

\* line 118: the await returns the decoded body
ReplyReturns ==
    \E c \in inflight : \E botResponse \in ReplyBodies :
        /\ c.stage = "json"
        /\ inflight' = (inflight \ {c})
                       \cup { [id |-> c.id, message |-> c.message,
                               stage |-> "line121", body |-> botResponse] }
        /\ UNCHANGED <<chatInput, sendDisabled, isTyping, typingIndicator,
                       conversationHistory, chatWindow, productContainer,
                       orderContainer, statusIndicator, probe, posts, rejected,
                       clicks>>

\* line 121: setTypingState(false)
TypingOff ==
    \E c \in inflight :
        /\ c.stage = "line121"
        /\ setTypingState(FALSE)
        /\ inflight' = (inflight \ {c}) \cup { at(c, "line124") }
        /\ UNCHANGED <<chatInput, sendDisabled, conversationHistory, chatWindow,
                       productContainer, orderContainer, statusIndicator, probe,
                       posts, rejected, clicks>>

\* line 124: processResponse(botResponse); a throw goes to the catch block
Dispatch ==
    \E c \in inflight :
        /\ c.stage = "line124"
        /\ LET p == processResponse(chatWindow,
                        [product |-> productContainer, order |-> orderContainer],
                        c.body)
           IN  /\ productContainer' = p.product
               /\ orderContainer' = p.order
               /\ IF p.threw
                  THEN /\ raise(DispatchLine, p.log)
                       /\ inflight' = inflight \ {c}
                  ELSE /\ chatWindow' = p.log
                       /\ inflight' = (inflight \ {c}) \cup { at(c, "line127") }
                       /\ UNCHANGED <<isTyping, typingIndicator, rejected>>
        /\ UNCHANGED <<chatInput, sendDisabled, conversationHistory,
                       statusIndicator, probe, posts, clicks>>

\* lines 127-132: conversationHistory.push of the bot entry
RecordReply ==
    \E c \in inflight :
        /\ c.stage = "line127"
        /\ conversationHistory' =
               Append(conversationHistory,
                      [role |-> "bot", message |-> c.body.message,
                       type |-> c.body.type, data |-> c.body.data])
        /\ inflight' = inflight \ {c}
        /\ UNCHANGED <<chatInput, sendDisabled, isTyping, typingIndicator,
                       chatWindow, productContainer, orderContainer,
                       statusIndicator, probe, posts, rejected, clicks>>

ReplyNext == ReplyReturns \/ TypingOff \/ Dispatch \/ RecordReply

ReplySpec == ReplyInit /\ [][ReplyNext]_vars

-----------------------------------------------------------------------------
\* Properties

\* The values chatInput.value can have when handleUserMessage is entered.
SubmitValues == InputTexts \cup QuickActions \cup { <<>>, chatInput }

\* C1: a submission whose trimmed text is non-empty, made while isTyping is
\* false, appends exactly one user turn carrying the trimmed text (to
\* conversationHistory and to the chat log), sets isTyping, empties the input
\* field and issues exactly one POST.
C1_AcceptedSubmission ==
    [][\A value \in SubmitValues :
         (Accepts(value) /\ Submit(value)) =>
            /\ conversationHistory' =
                   Append(conversationHistory, [role |-> "user", message |-> trim(value)])
            /\ chatWindow' =
                   Append(chatWindow, [cls |-> "user-message", text |-> trim(value)])
            /\ isTyping' = TRUE
            /\ chatInput' = <<>>
            /\ posts' = posts + 1
            /\ Cardinality(inflight') = Cardinality(inflight) + 1
            /\ \E c \in inflight' \ inflight : c.message = trim(value)]_vars

\* C1 witness: the text " a " was submitted from Idle: one user turn "a", one
\* POST pending, the input field empty.
C1_Witness ==
    /\ conversationHistory = << [role |-> "user", message |-> <<"a">>] >>
    /\ isTyping
    /\ chatInput = <<>>
    /\ posts = 1
    /\ Cardinality(inflight) = 1

\* C2: a rejected submission (empty or whitespace-only text, or any entry
\* point while isTyping is true) creates no turn, issues no POST and leaves
\* conversationHistory, the chat log, isTyping and the panels unchanged.
C2_RejectedSubmissionNoOp ==
    [][\A value \in SubmitValues :
         (~Accepts(value) /\ Submit(value)) =>
            UNCHANGED <<conversationHistory, chatWindow, isTyping, typingIndicator,
                        productContainer, orderContainer, inflight, posts>>]_vars

\* C2 witness: a quick action button was clicked while a reply was awaited; its
\* text sits in the input field, and nothing was sent for it.
C2_Witness ==
    /\ isTyping
    /\ chatInput \in QuickActions
    /\ posts = 1
    /\ Len(conversationHistory) = 1

\* C3: at most one POST is in flight, it is the one of the last accepted
\* submission, and nothing is kept for sending later.
C3_AtMostOneInFlight ==
    /\ Cardinality(inflight) <= 1
    /\ \A c \in inflight :
          /\ c.id = posts
          /\ conversationHistory # <<>>
          /\ conversationHistory[Len(conversationHistory)] =
                 [role |-> "user", message |-> c.message]

\* C3 witness: the second exchange is pending and a submission was attempted
\* during it.
C3_Witness ==
    /\ posts = 2
    /\ Cardinality(inflight) = 1
    /\ chatInput \in QuickActions

\* C4: between event handlers isTyping is true exactly when a POST issued by
\* an accepted submission has not settled yet.
C4_TypingIffPending == isTyping <=> (inflight # {})

\* C4 witness: the POST of a submission was answered with a success status and
\* its body is not decoded yet: the call has not settled, isTyping is true.
C4_Witness ==
    /\ isTyping
    /\ \E c \in inflight : c.stage = "json"

\* A step in which the pending call fails in one of its three forms.
NetworkFailure == \E c \in inflight : c.stage = "fetch" /\ transportFails(c)
BadStatus == FetchResolvesNotOk
UndecodableBody == JsonRejects

\* The failure transition: the fallback notice is the one message added to the
\* chat log and isTyping is false.
FailureTransition ==
    /\ chatWindow' = Append(chatWindow, [cls |-> "bot-message", text |-> FallbackNotice])
    /\ isTyping' = FALSE

\* C5: when the POST of an accepted submission fails, exactly one assistant
\* message, the failure notice, is added to the chat log, isTyping is false
\* afterwards, and a next non-empty submission passes the guard.
C5_FailureOneNotice ==
    [][\A c \in inflight :
         transportFails(c) =>
            /\ FailureTransition
            /\ \A value \in InputTexts \cup QuickActions :
                  trim(value) # <<>> => (Accepts(value))']_vars

\* C5 witness: one submission, its call failed: the log holds the user turn and
\* the notice, and the machine is Idle.
C5_Witness ==
    /\ posts = 1
    /\ inflight = {}
    /\ ~isTyping
    /\ chatWindow = << [cls |-> "user-message", text |-> <<"a">>],
                       [cls |-> "bot-message", text |-> FallbackNotice] >>

\* C6: for every decoded response of the response schema, the exchange shows
\* exactly one assistant message in the chat log, appends exactly one bot
\* entry with the response's message, type and data to conversationHistory,
\* and leaves isTyping false.
C6_OneAssistantTurnPerResponse ==
    [][\A c \in inflight : \A r \in Responses :
         (c.stage = "json" /\ onResponse(c, r)) =>
            /\ chatWindow' =
                   Append(chatWindow, [cls |-> "bot-message", text |-> r.message])
            /\ conversationHistory' =
                   Append(conversationHistory,
                          [role |-> "bot", message |-> r.message,
                           type |-> r.type, data |-> r.data])
            /\ isTyping' = FALSE]_vars

\* C7: every state in which a reply is awaited is followed by one in which
\* isTyping is false, provided every issued call settles.
C7_AwaitingLeadsToIdle == isTyping ~> ~isTyping

\* C7 witness: two submissions, both ended on the error path (no bot entry in
\* conversationHistory), and the machine is Idle again.
C7_Witness ==
    /\ posts = 2
    /\ inflight = {}
    /\ ~isTyping
    /\ Len(conversationHistory) = 2
    /\ \A i \in 1..2 : conversationHistory[i].role = "user"

\* C8: a network failure, a non-success status and an undecodable body (and a
\* body that decodes to null) all take the failure transition, and
\* handleUserMessage's promise never rejects.
C8_FailureFormsAlike ==
    [][(\/ NetworkFailure
        \/ BadStatus
        \/ UndecodableBody
        \/ \E c \in inflight : c.stage = "json" /\ onResponse(c, NullBody))
       => (FailureTransition /\ rejected' = 0)]_vars

\* C8 witness: two calls failed, each left one notice, none was propagated.
C8_Witness ==
    /\ rejected = 0
    /\ ~isTyping
    /\ Len(chatWindow) = 4
    /\ chatWindow[2].text = FallbackNotice
    /\ chatWindow[4].text = FallbackNotice

\* A panel that is visible shows a rendered result.
PanelsRendered ==
    /\ productContainer.active => productContainer.html # <<>>
    /\ orderContainer.active => orderContainer.html # <<>>

\* C9: after a transport failure has been handled no structured panel is
\* visible, whatever rendered panel was visible before the failed submission.
C9_NoPanelAfterFailure ==
    [][\A c \in inflight :
         (PanelsRendered /\ transportFails(c)) =>
            (~productContainer'.active /\ ~orderContainer'.active)]_vars

\* C10: the product panel and the order panel are never both active.
C10_PanelsExclusive == ~(productContainer.active /\ orderContainer.active)

\* C10 witness: a product response, then an order response: the order panel
\* alone is active.
C10_Witness ==
    /\ Len(conversationHistory) = 4
    /\ conversationHistory[2].type = "product"
    /\ conversationHistory[4].type = "order"
    /\ orderContainer.active
    /\ ~productContainer.active

\* C11: after processResponse(r) the product panel alone is active when r.type
\* is "product" and r.data is present, the order panel alone is active when
\* r.type is "order" and r.data is present, and no panel is active for any
\* other type, for no type, and for absent data -- whatever panel the reply
\* before had left active.
C11_DispatchByType ==
    [][\A c \in inflight :
          (c.stage = "line124" /\ Dispatch /\ c.body # NullBody) =>
              LET r == c.body
                  product == r.type = "product" /\ r.data.present
                  order == r.type = "order" /\ r.data.present
              IN  /\ productContainer'.active <=> product
                  /\ orderContainer'.active <=> order]_vars

\* a product reply after an order reply: the product panel alone is active
C11_Witness ==
    /\ Len(conversationHistory) = 4
    /\ conversationHistory[2].type = "order"
    /\ conversationHistory[4].type = "product"
    /\ productContainer.active
    /\ ~orderContainer.active

\* The bot entry of the reply carried by c is the last entry of
\* conversationHistory.
Recorded(c) ==
    /\ conversationHistory # <<>>
    /\ conversationHistory[Len(conversationHistory)] =
           [role |-> "bot", message |-> c.body.message, type |-> c.body.type,
            data |-> c.body.data]

\* C12: on a successful response the assistant turn is appended to
\* conversationHistory first, isTyping is set to false second and the response
\* is dispatched third: when isTyping becomes false the turn is already
\* appended, and when the response is dispatched isTyping is already false.
C12_AppendThenFlipThenDispatch ==
    [][\A c \in inflight :
          /\ (c.stage = "line121" /\ c.body # NullBody /\ TypingOff) => Recorded(c)
          /\ (c.stage = "line124" /\ c.body # NullBody /\ Dispatch) =>
                 (~isTyping /\ Recorded(c))]_vars

IsPrefix(s, t) == Len(s) <= Len(t) /\ SubSeq(t, 1, Len(s)) = s

\* C13: the turn sequence is append-only: over every step the value of
\* conversationHistory before the step is a prefix of its value after, and
\* likewise for the chat log; no entry is removed, reordered or rewritten.
C13_AppendOnly ==
    [][/\ IsPrefix(conversationHistory, conversationHistory')
       /\ IsPrefix(chatWindow, chatWindow')]_vars

\* two full exchanges, the offline notice and a renderer confirmation are all
\* in the log
C13_Witness ==
    /\ Len(conversationHistory) = 4
    /\ Len(chatWindow) = 6
    /\ clicks = 1
    /\ "offline" \in statusIndicator

\* C14: the connectivity probe is advisory.  Whether a submission is accepted
\* depends on the input text and isTyping alone -- with the probe pending,
\* settled online or settled offline a submission is accepted exactly when its
\* trimmed text is non-empty and isTyping is false -- and the step on which the
\* probe settles changes neither isTyping nor conversationHistory nor the
\* calls in flight.
C14_ProbeAdvisory ==
    [][/\ \A value \in SubmitValues :
            Submit(value) =>
                ((posts' = posts + 1) <=> (trim(value) # <<>> /\ ~isTyping))
       /\ ProbeSettles => UNCHANGED <<isTyping, conversationHistory, inflight, posts>>]_vars

\* the probe found the service unreachable, and the submission made after
\* that was accepted and is awaiting its reply
C14_Witness ==
    /\ probe = "done"
    /\ "offline" \in statusIndicator
    /\ isTyping
    /\ Len(chatWindow) = 2
    /\ chatWindow[1].text = OfflineNotice
    /\ chatWindow[2].cls = "user-message"

\* number of offline notices in the chat log
OfflineNotices ==
    Cardinality({ i \in 1..Len(chatWindow) : chatWindow[i].text = OfflineNotice })

\* what the probe has left: nothing while it is pending; once settled, either
\* the online badge and no notice or the offline badge and one notice
ProbeOutcome ==
    /\ probe = "pending" => (statusIndicator = {} /\ OfflineNotices = 0)
    /\ probe = "done" =>
           \/ statusIndicator = {"online"} /\ OfflineNotices = 0
           \/ statusIndicator = {"offline"} /\ OfflineNotices = 1

\* C15: the probe runs once and has exactly one outcome.  Unreachable (a
\* non-success status or a network error): the badge is offline and exactly
\* one offline notice is in the chat log.  Connected: the badge is online and
\* no notice is added.  Once settled the badge never changes again, so at
\* most one offline notice appears in a session.
C15_ProbeOnce ==
    [][/\ ProbeOutcome'
       /\ OfflineNotices' <= 1
       /\ probe = "done" => UNCHANGED <<probe, statusIndicator>>]_vars

\* the probe found the service unreachable and two exchanges followed: still
\* one notice
C15_Witness ==
    /\ probe = "done"
    /\ statusIndicator = {"offline"}
    /\ OfflineNotices = 1
    /\ Len(conversationHistory) = 4

\* C16: a click on a renderer button (add to cart, track order, cancel order),
\* whether isTyping is false or true, adds exactly one assistant message to the
\* chat log, issues no POST, and leaves isTyping, conversationHistory and both
\* panels as they were.
C16_RendererActionFrame ==
    [][(AddToCartClick \/ OrderActionClick) =>
          /\ Len(chatWindow') = Len(chatWindow) + 1
          /\ IsPrefix(chatWindow, chatWindow')
          /\ chatWindow'[Len(chatWindow')].cls = "bot-message"
          /\ chatWindow'[Len(chatWindow')].text[1] \in {"cart", "track", "cancel"}
          /\ UNCHANGED <<isTyping, typingIndicator, conversationHistory, inflight,
                         posts, productContainer, orderContainer>>]_vars

\* an order button was clicked while the reply to the second submission was
\* awaited
C16_Witness ==
    /\ isTyping
    /\ clicks = 1
    /\ orderContainer.active
    /\ chatWindow[Len(chatWindow)].text[1] \in {"track", "cancel"}
    /\ inflight # {}

\* C17: the send button is disabled while isTyping is true, and once a reply or
\* a transport failure has been handled (isTyping false again after at least
\* one exchange) it is enabled.
C17_SendDisabledIffAwaiting ==
    /\ isTyping => sendDisabled
    /\ (~isTyping /\ posts > 0) => ~sendDisabled

\* C18: when the POST fails, the fallback assistant turn is appended to
\* conversationHistory, so that every completed exchange, failed ones
\* included, has added exactly two entries: the user turn, then an assistant
\* turn.
C18_FailureRecorded ==
    [][\A c \in inflight :
          transportFails(c) =>
              /\ Len(conversationHistory') = Len(conversationHistory) + 1
              /\ IsPrefix(conversationHistory, conversationHistory')
              /\ conversationHistory'[Len(conversationHistory')].role = "bot"
              /\ conversationHistory'[Len(conversationHistory')].message = FallbackNotice
              /\ Len(conversationHistory') = 2 * posts]_vars

\* The block rendered for keyword result k is exactly the one its case calls
\* for: the error line, the no-results notice with no card, or a section with
\* one card per product record.
BlockFor(b, k) ==
    /\ b.keyword = k.keyword
    /\ IF k.hasError
       THEN b.kind = "error-message" /\ b.cards = <<>>
       ELSE IF k.total_count = 0
       THEN b.kind = "no-results" /\ b.cards = <<>>
       ELSE b.kind = "product-section" /\ b.cards = k.products

\* C19: for each keyword of a product search result renderProductResponse
\* renders exactly one of: an error line when the result carries an error
\* (even if it also carries a count or products), a no-results notice and no
\* card when total_count is 0, or one product card per product record
\* otherwise -- one block per keyword, in order, after the header.
C19_OneBlockPerKeyword ==
    [][\A c \in inflight :
          (/\ c.stage = "line124"
           /\ c.body.type = "product"
           /\ c.body.data.present
           /\ Dispatch) =>
              LET results == c.body.data.results
                  html == productContainer'.html
              IN  /\ Len(html) = Len(results) + 1
                  /\ \A i \in 1..Len(results) : BlockFor(html[i + 1], results[i])]_vars

DigitValue(ch) == CHOOSE d \in 0..9 : Digit(d) = ch

\* the number a displayed price reads as: group separators dropped, digits
\* read in base ten
RECURSIVE parsePrice(_)
parsePrice(s) ==
    IF s = <<>> THEN 0
    ELSE IF s[Len(s)] = "." THEN parsePrice(SubSeq(s, 1, Len(s) - 1))
    ELSE 10 * parsePrice(SubSeq(s, 1, Len(s) - 1)) + DigitValue(s[Len(s)])

RECURSIVE SumOfItems(_, _)
SumOfItems(items, n) ==
    IF n = 0 THEN 0
    ELSE SumOfItems(items, n - 1) + items[n].price * items[n].quantity

\* C20: for every order whose total field is absent, the total displayed by
\* renderOrderResponse reads as the sum over all items of price x quantity,
\* and as 0 when items is empty or absent.
C20_TotalIsSumOfItems ==
    [][\A c \in inflight :
          (/\ c.stage = "line124"
           /\ c.body.type = "order"
           /\ c.body.data.present
           /\ ~c.body.data.hasTotal
           /\ Dispatch) =>
              LET data == c.body.data
                  shown == orderContainer'.html[1].total
              IN  /\ shown # <<>>
                  /\ shown[1] # "."
                  /\ parsePrice(shown) =
                         IF data.hasItems THEN SumOfItems(data.items, Len(data.items))
                         ELSE 0]_vars

\* an order of 3 x 500 and 1 x 20 with no total has been rendered as 1.520
C20_Witness ==
    \E c \in inflight :
        /\ c.stage = "line127"
        /\ c.body.type = "order"
        /\ ~c.body.data.hasTotal
        /\ c.body.data.items = << [price |-> 500, quantity |-> 3],
                                  [price |-> 20, quantity |-> 1] >>
        /\ orderContainer.html[1].total = << "1", ".", "5", "2", "0" >>

\* number of user turns in conversationHistory
UserTurns ==
    Cardinality({ i \in 1..Len(conversationHistory) : conversationHistory[i].role = "user" })

\* number of user messages in the chat log: one per accepted submission
AcceptedSubmissions ==
    Cardinality({ i \in 1..Len(chatWindow) : chatWindow[i].cls = "user-message" })

CallIds(calls) == { c.id : c \in calls }

\* C21: no automatic retry.  After every step the number of POSTs issued so
\* far equals the number of accepted submissions and the number of user turns
\* in conversationHistory, and a step on which a pending call settles --
\* failures included -- issues no call.
C21_NoRetry ==
    [][/\ posts' = AcceptedSubmissions'
       /\ posts' = UserTurns'
       /\ Settles => (posts' = posts /\ CallIds(inflight') \subseteq CallIds(inflight))]_vars

\* two submissions, at least one of them failed, nothing pending
C21_Witness ==
    /\ posts = 2
    /\ UserTurns = 2
    /\ inflight = {}
    /\ \E i \in 1..Len(chatWindow) : chatWindow[i].text = FallbackNotice

\* C22: a pending POST that does not resolve keeps isTyping true.  On every
\* step taken while isTyping is true that is not the settling of the pending
\* call, isTyping stays true, the same call stays pending, and no submission
\* is accepted (no POST, no new turn): there is no timeout or cancellation.
C22_NoWayOutButSettling ==
    [][(isTyping /\ ~Settles) =>
          /\ isTyping'
          /\ typingIndicator'
          /\ inflight' = inflight
          /\ posts' = posts
          /\ conversationHistory' = conversationHistory]_vars

\* with the POST still pending the probe has settled, a renderer button and a
\* quick action button were clicked (the quick action's text sits unsent in
\* the input field), and isTyping is still true
C22_Witness ==
    /\ isTyping
    /\ inflight # {}
    /\ posts = 2
    /\ probe = "done"
    /\ clicks = 1
    /\ chatInput \in QuickActions
    /\ chatWindow[Len(chatWindow)].cls = "bot-message"
    /\ chatWindow[Len(chatWindow)].text[1] \in {"cart", "track", "cancel"}

\* C23: when an order's total field is present it overrides the computed sum:
\* the total displayed by renderOrderResponse reads as data.total for every
\* present value, 0 included, whatever the items are.
C23_TotalOverrides ==
    [][\A c \in inflight :
          (/\ c.stage = "line124"
           /\ c.body.type = "order"
           /\ c.body.data.present
           /\ c.body.data.hasTotal
           /\ Dispatch) =>
              parsePrice(orderContainer'.html[1].total) = c.body.data.total]_vars

\* number of bot entries in conversationHistory
BotTurns ==
    Cardinality({ i \in 1..Len(conversationHistory) : conversationHistory[i].role = "bot" })

\* every bot entry comes right after a user entry
BotAnswersUser ==
    \A i \in 1..Len(conversationHistory) :
        conversationHistory[i].role = "bot" =>
            (i > 1 /\ conversationHistory[i - 1].role = "user")

\* C24: in conversationHistory every bot entry is immediately preceded by a
\* user entry, so no two bot entries are adjacent and the bot entries never
\* outnumber the user entries; and the step that records a reply records it
\* for the latest submission -- the call answered is the last one issued and
\* the entry before the new bot entry is that submission's user entry.
C24_ReplyFollowsItsSubmission ==
    [][/\ BotAnswersUser'
       /\ BotTurns' <= UserTurns'
       /\ \A c \in inflight :
            (c.stage = "json" /\ c \notin inflight' /\ BotTurns' = BotTurns + 1) =>
                /\ c.id = posts
                /\ Len(conversationHistory') = Len(conversationHistory) + 1
                /\ conversationHistory[Len(conversationHistory)] =
                       [role |-> "user", message |-> c.message]]_vars

\* a failed exchange, then an answered one: user, user, bot
C24_Witness ==
    /\ Len(conversationHistory) = 3
    /\ conversationHistory[1].role = "user"
    /\ conversationHistory[2].role = "user"
    /\ conversationHistory[3].role = "bot"
    /\ ~isTyping

\* C25: between event handlers the send button is disabled if and only if the
\* trimmed content of the input field is empty -- after typing, clear clicks,
\* accepted and rejected submissions (quick action clicks while a reply is
\* awaited included) and network completions.
C25_SendDisabledIffEmptyInput ==
    sendDisabled <=> (trim(chatInput) = <<>>)

====
